---- MODULE Spec2Model ----
(***************************************************************************)
(* Model of the synthetic-data-kit generation pipeline: the five           *)
(* generators (QA, distill, knowledge-list, extract-knowledge,             *)
(* wikipedia-rephrase), their batch / per-document loops over the LLM      *)
(* backend and the records they assemble.                                  *)
(*                                                                         *)
(* A string is a sequence of characters.  A prompt carries the position    *)
(* (document index d, chunk index k) of the text it was built from; a      *)
(* response of the backend carries the position of the prompt it answers   *)
(* (field re) next to its characters (field body).                         *)
(***************************************************************************)
EXTENDS Integers, Sequences, FiniteSets, TLC

\* ---------------------------------------------------------------- bounds
MaxDocs == 3      \* longest document list handed to process_documents
MaxBatch == 2     \* largest configured batch_size
MaxCalls == 2     \* entry-point calls made in one process
MaxQADocs == 2    \* documents of one QAGenerator.process_documents call
MaxRows == 1      \* rows of a .lance dataset handed to create.process_file
MaxTableRows == 2 \* rows of a parquet table handed to ingest.process_file
MaxText == 4      \* characters of a text handed to the chunk splitter
MaxChunk == 3     \* largest chunk_size handed to the chunk splitter

\* ------------------------------------------------------------- vocabulary
Generators == {"qa", "distill", "knowledge-list", "extract-knowledge", "wikipedia-rephrase"}

BaseGenerators == {"extract-knowledge", "wikipedia-rephrase"}

\* Documents {id, text}; the empty text is what the parquet parser
\* returns when no row qualifies.
DocPool ==
    { [id |-> "doc1", text |-> <<>>],
      [id |-> "doc2", text |-> <<"a", "b">>],
      [id |-> "doc3", text |-> <<"a", "b", "c">>] }

DocLists == UNION { [1..n -> DocPool] : n \in 0..MaxDocs }

\* the document lists handed to QAGenerator.process_documents, whose runs
\* take one backend call per batch of chunks of each document
QADocLists == UNION { [1..n -> DocPool] : n \in 0..MaxQADocs }

BatchSizes == 1..MaxBatch

\* (chunk_size, overlap) pairs of the generation config, overlap < chunk_size
ChunkConfigs == { <<2, 0>>, <<2, 1>> }

\* a generation config whose overlap is not below its chunk_size
BadChunkConfigs == { <<2, 2>> }

\* num_pairs of QAGenerator.process_documents when the caller passes none
DefaultNumPairs == 25

\* num_pairs a direct caller of QAGenerator.process_documents may pass
NumPairsArgs == { 1 }

\* The preface the rephrase tests expect to be stripped
\* ("Here is a paraphrased version: "), as two characters.
Preface == <<"H", ":">>

\* Response texts the backend may produce for a non-QA prompt.
TextBodies == { <<"x">>, Preface \o <<"x">> }

\* Response texts for a QA prompt: tokens Q (question marker with its
\* question), A (answer marker with its answer), J (stray text); one
\* response without a complete pair, one with two well-formed pairs.
QABodies == { <<"J", "Q">>, <<"Q", "A", "Q", "A">> }

Bodies(g) == IF g = "qa" THEN QABodies ELSE TextBodies

Min(a, b) == IF a < b THEN a ELSE b

\* ------------------------------------------------------------------ state
VARIABLES
    pc,             \* "idle" | "doc" | "loop" | "wait" | "done" | "raised"
    ncalls,         \* process_documents calls started so far
    gen,            \* generator whose process_documents is running
    documents,      \* argument documents
    verbose,        \* argument verbose
    batch_size,     \* generation_config["batch_size"]
    chunk_size,     \* generation_config["chunk_size"]
    overlap,        \* generation_config["overlap"]
    env,            \* os.environ['SDK_VERBOSE']: "unset" | "true" | "false"
    helper_verbose, \* verbose as last read from env by a helper
    doc_i,          \* 1-based index of the document being processed
    all_messages,   \* prompts of the running batch loop
    batch_start,    \* loop variable of the batch loop (0-based)
    inflight,       \* <<>> or <<request>>: the outstanding backend call
    all_responses,  \* BaseGenerator: responses collected so far
    qa_pairs,       \* generate_qa_pairs: pairs of the current document
    all_qa_pairs,   \* QAGenerator.process_documents: pairs of all documents
    results,        \* distill / knowledge-list: records built so far
    advanced,       \* cumulative advance of the progress task
    calls,          \* log of the backend calls made in this call
    error,          \* "none" or the exception that ended the call
    result,         \* <<>> or <<value returned by process_documents>>
    entry,          \* "none" | "direct" | "create" | "ingest": the entry point
    cf,             \* arguments and config file of create.process_file
    num_pairs,      \* argument num_pairs of QAGenerator.process_documents
    client,         \* <<>> or <<LLMClient>>: the client and its config
    fs,             \* file system effects of the running entry point
    input,          \* the input file of create / ingest process_file
    content,        \* <<>> or <<records returned by ParquetParser.parse>>
    message         \* column names listed in the error message, if any

vars == << pc, ncalls, gen, documents, verbose, batch_size, chunk_size, overlap,
           env, helper_verbose, doc_i, all_messages, batch_start, inflight,
           all_responses, qa_pairs, all_qa_pairs, results, advanced, calls,
           error, result, entry, cf, num_pairs, client, fs, input, content,
           message >>

\* variables of one call that a step of a loop leaves alone
args == << ncalls, gen, documents, verbose, batch_size, chunk_size, overlap,
           entry, cf, num_pairs, client, fs, input, content, message >>

\* what the entry points outside the generators own
outer == << cf, client, fs, input, content, message >>

\* ---------------------------------------------------------------- helpers
\* A prompt: the message list built from the text at document d, chunk k.
Message(d, k, text) == [d |-> d, k |-> k, text |-> text]

\* os.environ['SDK_VERBOSE'] = 'true' if verbose else 'false'
SetVerbose(v) == IF v THEN "true" ELSE "false"

\* os.environ.get('SDK_VERBOSE', 'false').lower() == 'true'
ReadVerbose(e) == e = "true"

\* The backend answering every prompt of a request, in order, with the
\* texts bs: response j answers prompt j.
Respond(msgs, bs) ==
    [j \in 1..Len(msgs) |-> [re |-> <<msgs[j].d, msgs[j].k>>, body |-> bs[j]]]

\* a / b of two lengths, kept as an exact fraction
Ratio(a, b) == [num |-> a, den |-> b]

\* one entry of the backend call log
Call(method, msgs, outcome, resps) ==
    [method |-> method, messages |-> msgs, outcome |-> outcome, responses |-> resps]

\* a slice that starts at the head of the list whatever batch_start is
SliceFromHead(s, a, b) == SubSeq(s, 1, b)

\* all_messages[batch_start:batch_end]
Slice(s, from, to) == SubSeq(s, from + 1, to)

\* None of an Optional argument is <<>>, a given value v is <<v>>
None == <<>>

\* create.process_file not running: no arguments
NoArgs ==
    [ content_type |-> "none", num_pairs |-> None, chunk_size |-> None,
      chunk_overlap |-> None, verbose |-> FALSE, batch_size |-> 1,
      config_chunk |-> <<2, 0>> ]

\* nothing created, read or written
NoEffects ==
    [ out_dir_existed |-> FALSE, out_dir |-> FALSE, read |-> FALSE,
      output |-> <<>>, dataset |-> <<>> ]

NoInput == [ ext |-> "none" ]

\* "id" in doc
HasId(doc) == "id" \in DOMAIN doc

\* utils.config.load_config: the generation section of the config file,
\* read anew by every caller
load_config(a) == [chunk_size |-> a.config_chunk[1], overlap |-> a.config_chunk[2]]

\* ------------------------------------------------------------------- init
Init ==
    /\ pc = "idle"
    /\ ncalls = 0
    /\ gen = "none"
    /\ documents = <<>>
    /\ verbose = FALSE
    /\ batch_size = 1
    /\ chunk_size = 2
    /\ overlap = 0
    /\ env = "unset"
    /\ helper_verbose = "none"
    /\ doc_i = 0
    /\ all_messages = <<>>
    /\ batch_start = 0
    /\ inflight = <<>>
    /\ all_responses = <<>>
    /\ qa_pairs = <<>>
    /\ all_qa_pairs = <<>>
    /\ results = <<>>
    /\ advanced = 0
    /\ calls = <<>>
    /\ error = "none"
    /\ result = <<>>
    /\ entry = "none"
    /\ cf = NoArgs
    /\ num_pairs = DefaultNumPairs
    /\ client = <<>>
    /\ fs = NoEffects
    /\ input = NoInput
    /\ content = <<>>
    /\ message = <<>>

\* process_documents is entered by a direct call (as the unit tests do) ...
Direct == pc = "idle" /\ ncalls < MaxCalls

\* a dispatch on the content type that falls back to the qa branch
BranchOrQA(ct) == IF ct \in Generators THEN ct ELSE "qa"

\* the if / elif chain of create.process_file over content_type: the branch
\* of the content type, "none" for the final else
Branch(ct) == IF ct \in Generators THEN ct ELSE "none"

\* ... or from create.process_file, in the branch ct
FromCreate(ct) == pc = "create" /\ Branch(cf.content_type) = ct

\* ------------------------------------------- BaseGenerator (base.py 52-145)
\* all_messages: one prompt per document, in document order
BasePrompts(docs) == [k \in 1..Len(docs) |-> Message(k, 1, docs[k].text)]

\* ExtractKnowledgeGenerator.process_responses: zip(documents, responses);
\* len(knowledge) / len(doc["text"]) raises ZeroDivisionError on an empty text.
ExtractRecord(doc, knowledge) ==
    [ id |-> doc.id,
      text |-> knowledge,
      original_text |-> doc.text,
      original_length |-> Len(doc.text),
      knowledge_length |-> Len(knowledge.body),
      compression_ratio |-> Ratio(Len(knowledge.body), Len(doc.text)) ]

\* the exception of the first zipped document that has no "id" key
\* (doc["id"] is evaluated first) or an empty text, "none" without one
ExtractError(docs, resps) ==
    LET bad == { i \in 1..Min(Len(docs), Len(resps)) :
                    ~HasId(docs[i]) \/ Len(docs[i].text) = 0 }
    IN  IF bad = {} THEN "none"
        ELSE LET i == CHOOSE i \in bad : \A j \in bad : i <= j
             IN  IF ~HasId(docs[i]) THEN "KeyError" ELSE "ZeroDivisionError"

ExtractRaises(docs, resps) == ExtractError(docs, resps) # "none"

ExtractProcessResponses(docs, resps) ==
    [i \in 1..Min(Len(docs), Len(resps)) |-> ExtractRecord(docs[i], resps[i])]

\* a record whose text lost the first character of the response
RephraseTrimmed(doc, rephrased) ==
    [id |-> doc.id, text |-> [re |-> rephrased.re, body |-> Tail(rephrased.body)]]

\* WikipediaRephraseGenerator.process_responses: zip(documents, responses),
\* "text": rephrased
RephraseRecord(doc, rephrased) == [id |-> doc.id, text |-> rephrased]

\* doc["id"] of a document without the key
RephraseError(docs, resps) ==
    IF \E i \in 1..Min(Len(docs), Len(resps)) : ~HasId(docs[i])
    THEN "KeyError" ELSE "none"

RephraseProcessResponses(docs, resps) ==
    [i \in 1..Min(Len(docs), Len(resps)) |-> RephraseRecord(docs[i], resps[i])]

\* a dispatcher that puts each new batch in front of the earlier responses
ExtendInFront(all, batch) == batch \o all

\* all_responses.extend(batch_responses)
Extend(all, batch) == all \o batch

\* process_documents up to the head of the batch loop
BaseProcessDocuments ==
    /\ \/ /\ Direct
          /\ \E g \in BaseGenerators, docs \in DocLists, v \in BOOLEAN, b \in BatchSizes :
              /\ gen' = g
              /\ documents' = docs
              /\ verbose' = v
              /\ batch_size' = b
          /\ ncalls' = ncalls + 1
          /\ entry' = "direct"
       \/ /\ \E g \in BaseGenerators : FromCreate(g) /\ gen' = g
          /\ verbose' = cf.verbose
          /\ batch_size' = cf.batch_size
          /\ UNCHANGED << documents, ncalls, entry >>
    /\ env' = SetVerbose(verbose')
    /\ all_messages' = BasePrompts(documents')
    /\ pc' = "loop"
    /\ batch_start' = 0
    /\ all_responses' = <<>>
    /\ UNCHANGED << chunk_size, overlap, helper_verbose, doc_i, inflight, qa_pairs,
                    all_qa_pairs, results, advanced, calls, error, result,
                    num_pairs, outer >>

\* one iteration of the batch loop up to the call of client.batch_completion
BaseDispatch ==
    /\ pc = "loop"
    /\ gen \in BaseGenerators
    /\ batch_start < Len(documents)
    /\ LET batch_end == Min(batch_start + batch_size, Len(documents))
       IN  inflight' = << [method |-> "batch_completion",
                           messages |-> Slice(all_messages, batch_start, batch_end)] >>
    /\ pc' = "wait"
    /\ UNCHANGED << args, env, helper_verbose, doc_i, all_messages, batch_start,
                    all_responses, qa_pairs, all_qa_pairs, results, advanced, calls,
                    error, result >>

\* batch_completion returns: extend all_responses, advance the progress task
BaseReceive ==
    /\ pc = "wait"
    /\ gen \in BaseGenerators
    /\ LET req == inflight[1]
           current_batch_size == Len(req.messages)
       IN  \E bs \in [1..current_batch_size -> Bodies(gen)] :
             LET batch_responses == Respond(req.messages, bs)
             IN  /\ all_responses' = Extend(all_responses, batch_responses)
                 /\ calls' = Append(calls, Call(req.method, req.messages, "ok", batch_responses))
                 /\ advanced' = advanced + current_batch_size
    /\ batch_start' = batch_start + batch_size
    /\ inflight' = <<>>
    /\ pc' = "loop"
    /\ UNCHANGED << args, env, helper_verbose, doc_i, all_messages, qa_pairs,
                    all_qa_pairs, results, error, result >>

\* batch_completion returns one response fewer than it was sent prompts
\* (the last prompt is left unanswered): the loop goes on as after any reply
BaseReceiveShort ==
    /\ pc = "wait"
    /\ gen \in BaseGenerators
    /\ LET req == inflight[1]
           current_batch_size == Len(req.messages)
       IN  \E bs \in [1..(current_batch_size - 1) -> Bodies(gen)] :
             LET batch_responses ==
                     Respond(SubSeq(req.messages, 1, current_batch_size - 1), bs)
             IN  /\ all_responses' = Extend(all_responses, batch_responses)
                 /\ calls' = Append(calls, Call(req.method, req.messages, "short",
                                                batch_responses))
                 /\ advanced' = advanced + current_batch_size
    /\ batch_start' = batch_start + batch_size
    /\ inflight' = <<>>
    /\ pc' = "loop"
    /\ UNCHANGED << args, env, helper_verbose, doc_i, all_messages, qa_pairs,
                    all_qa_pairs, results, error, result >>

\* batch_completion raises: no handler in the loop, process_documents ends
\* with the exception
BaseRaise ==
    /\ pc = "wait"
    /\ gen \in BaseGenerators
    /\ calls' = Append(calls, Call(inflight[1].method, inflight[1].messages, "raise", <<>>))
    /\ inflight' = <<>>
    /\ error' = "backend"
    /\ pc' = "raised"
    /\ UNCHANGED << args, env, helper_verbose, doc_i, all_messages, batch_start,
                    all_responses, qa_pairs, all_qa_pairs, results, advanced, result >>

\* after the loop: return self.process_responses(documents, all_responses)
BaseFinish ==
    /\ pc = "loop"
    /\ gen \in BaseGenerators
    /\ batch_start >= Len(documents)
    /\ IF gen = "extract-knowledge"
       THEN IF ExtractRaises(documents, all_responses)
            THEN /\ error' = ExtractError(documents, all_responses)
                 /\ pc' = "raised"
                 /\ result' = result
            ELSE /\ result' = << ExtractProcessResponses(documents, all_responses) >>
                 /\ pc' = "done"
                 /\ error' = error
       ELSE IF RephraseError(documents, all_responses) # "none"
            THEN /\ error' = RephraseError(documents, all_responses)
                 /\ pc' = "raised"
                 /\ result' = result
            ELSE /\ result' = << RephraseProcessResponses(documents, all_responses) >>
                 /\ pc' = "done"
                 /\ error' = error
    /\ UNCHANGED << args, env, helper_verbose, doc_i, all_messages, batch_start,
                    inflight, all_responses, qa_pairs, all_qa_pairs, results,
                    advanced, calls >>

\* --------------------------------------- QAGenerator (qa_generator.py)
\* utils.text.split_into_chunks (spec 4.1): windows of chunk_size characters
\* whose starts are chunk_size - overlap apart; the last window may be
\* shorter; a text shorter than chunk_size is one chunk.
RECURSIVE SplitFrom(_, _, _, _)
SplitFrom(text, size, ov, s) ==
    IF s + size >= Len(text)
    THEN << SubSeq(text, s + 1, Len(text)) >>
    ELSE << SubSeq(text, s + 1, s + size) >> \o SplitFrom(text, size, ov, s + size - ov)

\* a splitter that forgets the overlap
split_without_overlap(text, size, ov) == SplitFrom(text, size, 0, 0)

split_into_chunks(text, size, ov) == SplitFrom(text, size, ov, 0)

\* spec 4.1: overlap >= chunk_size is a configuration error of the splitter
SplitRaises(size, ov) == ov >= size

\* utils.llm_processing.parse_qa_pairs (spec 4.2): scan the response for a
\* question marker and a following answer marker; a question without an
\* answer and stray text are dropped.  A pair names the response and the
\* positions its question and answer were read from.
RECURSIVE ParseFrom(_, _, _)
ParseFrom(response, i, pending) ==
    IF i > Len(response.body) THEN <<>>
    ELSE LET tok == response.body[i]
         IN  IF tok = "Q" THEN ParseFrom(response, i + 1, i)
             ELSE IF tok = "A" /\ pending > 0
                  THEN << [question |-> <<response.re, pending>>,
                           answer |-> <<response.re, i>>] >>
                       \o ParseFrom(response, i + 1, 0)
                  ELSE ParseFrom(response, i + 1, pending)

parse_qa_pairs(response) == ParseFrom(response, 1, 0)

\* generate_qa_pairs lines 111-122: one prompt per chunk, in chunk order
ChunkPrompts(d, chunks) == [k \in 1..Len(chunks) |-> Message(d, k, chunks[k])]

\* a response item that is not a string (None)
NotAString == << "None" >>

\* parse_qa_pairs scans a string; handed anything else it raises
ParseRaises(response) == response.body = NotAString

\* an extension that puts the pairs of a chunk in front of the earlier ones
ExtendPairsInFront(pairs, chunk_pairs) == chunk_pairs \o pairs

\* generate_qa_pairs lines 173-174: if chunk_pairs: all_qa_pairs.extend(chunk_pairs)
ExtendPairs(pairs, chunk_pairs) ==
    IF chunk_pairs # <<>> THEN pairs \o chunk_pairs ELSE pairs

\* generate_qa_pairs lines 169-174: parse every response of the batch in
\* order and extend all_qa_pairs with its pairs
RECURSIVE ExtendWithPairs(_, _)
ExtendWithPairs(pairs, batch_responses) ==
    IF batch_responses = <<>> THEN pairs
    ELSE LET chunk_pairs == parse_qa_pairs(Head(batch_responses))
         IN  ExtendWithPairs(ExtendPairs(pairs, chunk_pairs), Tail(batch_responses))

\* the responses of a batch that were parsed before parse_qa_pairs raised
ParsedBeforeRaise(batch_responses) ==
    LET bad == { j \in 1..Len(batch_responses) : ParseRaises(batch_responses[j]) }
        first == CHOOSE j \in bad : \A i \in bad : j <= i
    IN  SubSeq(batch_responses, 1, first - 1)

\* a tagging that takes the id of the first pool document for every pair
AttachFirstId(pairs, doc) ==
    [n \in 1..Len(pairs) |->
        [question |-> pairs[n].question, answer |-> pairs[n].answer, id |-> "doc1"]]

\* process_documents lines 238-239: qa_pair["id"] = doc["id"]
AttachId(pairs, doc) ==
    [n \in 1..Len(pairs) |->
        [question |-> pairs[n].question, answer |-> pairs[n].answer, id |-> doc.id]]

\* progress_ctx.add_task on a fresh Progress returns TaskID 0
generate_task == 0

\* `if progress_ctx and generate_task`: the task id is tested for truth
ProgressEnabled(v) == v /\ generate_task # 0

\* process_documents lines 214-226, up to the head of the document loop
QAProcessDocuments ==
    /\ \/ /\ Direct
          /\ \E docs \in QADocLists, v \in BOOLEAN, b \in BatchSizes,
                cc \in ChunkConfigs \cup BadChunkConfigs, n \in NumPairsArgs :
              /\ documents' = docs
              /\ verbose' = v
              /\ batch_size' = b
              /\ chunk_size' = cc[1]
              /\ overlap' = cc[2]
              /\ num_pairs' = n
          /\ ncalls' = ncalls + 1
          /\ entry' = "direct"
       \/ /\ FromCreate("qa")
          /\ verbose' = cf.verbose
          /\ batch_size' = cf.batch_size
          /\ chunk_size' = load_config(cf).chunk_size
          /\ overlap' = load_config(cf).overlap
          /\ num_pairs' = DefaultNumPairs
          /\ UNCHANGED << documents, ncalls, entry >>
    /\ env' = SetVerbose(verbose')
    /\ gen' = "qa"
    /\ pc' = "doc"
    /\ doc_i' = 1
    /\ all_qa_pairs' = <<>>
    /\ UNCHANGED << helper_verbose, all_messages, batch_start, inflight, all_responses,
                    qa_pairs, results, advanced, calls, error, result, outer >>

\* next document: generate_qa_pairs lines 86-143, up to the head of its
\* batch loop
QABeginDoc ==
    /\ pc = "doc"
    /\ gen = "qa"
    /\ doc_i <= Len(documents)
    /\ helper_verbose' = ReadVerbose(env)
    /\ IF SplitRaises(chunk_size, overlap)
       THEN /\ error' = "ConfigError"
            /\ pc' = "raised"
            /\ UNCHANGED << all_messages, qa_pairs, batch_start, advanced >>
       ELSE /\ LET chunks == split_into_chunks(documents[doc_i].text, chunk_size, overlap)
               IN  all_messages' = ChunkPrompts(doc_i, chunks)
            /\ qa_pairs' = <<>>
            /\ batch_start' = 0
            /\ advanced' = 0
            /\ pc' = "loop"
            /\ error' = error
    /\ UNCHANGED << args, env, doc_i, inflight, all_responses, all_qa_pairs, results,
                    calls, result >>

\* one iteration of the batch loop up to the call of client.batch_completion
QADispatch ==
    /\ pc = "loop"
    /\ gen = "qa"
    /\ batch_start < Len(all_messages)
    /\ LET batch_end == Min(batch_start + batch_size, Len(all_messages))
       IN  inflight' = << [method |-> "batch_completion",
                           messages |-> Slice(all_messages, batch_start, batch_end)] >>
    /\ pc' = "wait"
    /\ UNCHANGED << args, env, helper_verbose, doc_i, all_messages, batch_start,
                    all_responses, qa_pairs, all_qa_pairs, results, advanced, calls,
                    error, result >>

\* batch_completion returns: parse the responses, update the progress bar
QAReceive ==
    /\ pc = "wait"
    /\ gen = "qa"
    /\ LET req == inflight[1]
           current_batch_size == Len(req.messages)
       IN  \E bs \in [1..current_batch_size -> Bodies(gen)] :
             LET batch_responses == Respond(req.messages, bs)
             IN  /\ qa_pairs' = ExtendWithPairs(qa_pairs, batch_responses)
                 /\ calls' = Append(calls, Call(req.method, req.messages, "ok", batch_responses))
                 /\ advanced' = IF ProgressEnabled(helper_verbose)
                                THEN advanced + current_batch_size ELSE advanced
    /\ batch_start' = batch_start + batch_size
    /\ inflight' = <<>>
    /\ pc' = "loop"
    /\ UNCHANGED << args, env, helper_verbose, doc_i, all_messages, all_responses,
                    all_qa_pairs, results, error, result >>

\* batch_completion returns a list whose last item is not a string: the
\* responses before it are parsed and their pairs added (lines 169-174),
\* parse_qa_pairs raises on the last one, the except clause swallows the
\* exception and the loop goes on
QAParseRaise ==
    /\ pc = "wait"
    /\ gen = "qa"
    /\ LET req == inflight[1]
           current_batch_size == Len(req.messages)
       IN  \E front \in [1..(current_batch_size - 1) -> QABodies] :
             LET bs == [j \in 1..current_batch_size |->
                          IF j < current_batch_size THEN front[j] ELSE NotAString]
                 batch_responses == Respond(req.messages, bs)
             IN  /\ qa_pairs' = ExtendWithPairs(qa_pairs, ParsedBeforeRaise(batch_responses))
                 /\ calls' = Append(calls, Call(req.method, req.messages, "broken",
                                                batch_responses))
                 /\ advanced' = IF ProgressEnabled(helper_verbose)
                                THEN advanced + current_batch_size ELSE advanced
    /\ batch_start' = batch_start + batch_size
    /\ inflight' = <<>>
    /\ pc' = "loop"
    /\ UNCHANGED << args, env, helper_verbose, doc_i, all_messages, all_responses,
                    all_qa_pairs, results, error, result >>

\* batch_completion raises: the except clause swallows it and the loop goes on
QARaise ==
    /\ pc = "wait"
    /\ gen = "qa"
    /\ LET req == inflight[1]
       IN  /\ calls' = Append(calls, Call(req.method, req.messages, "raise", <<>>))
           /\ advanced' = IF ProgressEnabled(helper_verbose)
                          THEN advanced + Len(req.messages) ELSE advanced
    /\ batch_start' = batch_start + batch_size
    /\ inflight' = <<>>
    /\ pc' = "loop"
    /\ UNCHANGED << args, env, helper_verbose, doc_i, all_messages, all_responses,
                    qa_pairs, all_qa_pairs, results, error, result >>

\* generate_qa_pairs returns; process_documents lines 237-244
QAEndDoc ==
    /\ pc = "loop"
    /\ gen = "qa"
    /\ batch_start >= Len(all_messages)
    /\ IF qa_pairs # <<>> /\ ~HasId(documents[doc_i])
       THEN /\ error' = "KeyError"
            /\ pc' = "raised"
            /\ UNCHANGED << all_qa_pairs, doc_i >>
       ELSE /\ all_qa_pairs' = all_qa_pairs \o AttachId(qa_pairs, documents[doc_i])
            /\ doc_i' = doc_i + 1
            /\ pc' = "doc"
            /\ error' = error
    /\ UNCHANGED << args, env, helper_verbose, all_messages, batch_start, inflight,
                    all_responses, qa_pairs, results, advanced, calls, result >>

\* process_documents lines 246-253
QAFinish ==
    /\ pc = "doc"
    /\ gen = "qa"
    /\ doc_i > Len(documents)
    /\ result' = << [qa_pairs |-> all_qa_pairs] >>
    /\ pc' = "done"
    /\ UNCHANGED << args, env, helper_verbose, doc_i, all_messages, batch_start,
                    inflight, all_responses, qa_pairs, all_qa_pairs, results,
                    advanced, calls, error >>

\* --------------------------------- DistillGenerator (distill_generator.py)
\* the result entry of lines 83-89; the ratio is 0 for an empty text
DistillRecord(doc, distilled) ==
    [ original_text |-> doc.text,
      distilled_text |-> distilled,
      original_length |-> Len(doc.text),
      distilled_length |-> Len(distilled.body),
      compression_ratio |-> IF Len(doc.text) > 0
                            THEN Ratio(Len(distilled.body), Len(doc.text))
                            ELSE Ratio(0, 1) ]

\* process_documents lines 60-72, up to the head of the document loop;
\* SDK_VERBOSE is not written here
DistillProcessDocuments ==
    /\ \/ /\ Direct
          /\ \E docs \in DocLists, v \in BOOLEAN, b \in BatchSizes :
              /\ documents' = docs
              /\ verbose' = v
              /\ batch_size' = b
          /\ ncalls' = ncalls + 1
          /\ entry' = "direct"
       \/ /\ FromCreate("distill")
          /\ verbose' = cf.verbose
          /\ batch_size' = cf.batch_size
          /\ UNCHANGED << documents, ncalls, entry >>
    /\ gen' = "distill"
    /\ pc' = "loop"
    /\ doc_i' = 1
    /\ results' = <<>>
    /\ UNCHANGED << chunk_size, overlap, env, helper_verbose, all_messages, batch_start,
                    inflight, all_responses, qa_pairs, all_qa_pairs, advanced, calls,
                    error, result, num_pairs, outer >>

\* one iteration of the document loop up to distill_text's call of
\* client.generate
DistillDispatch ==
    /\ pc = "loop"
    /\ gen = "distill"
    /\ doc_i <= Len(documents)
    /\ helper_verbose' = ReadVerbose(env)
    /\ inflight' = << [method |-> "generate",
                       messages |-> << Message(doc_i, 1, documents[doc_i].text) >>] >>
    /\ pc' = "wait"
    /\ UNCHANGED << args, env, doc_i, all_messages, batch_start, all_responses,
                    qa_pairs, all_qa_pairs, results, advanced, calls, error, result >>

\* client.generate returns: append the result entry, advance the progress task
DistillReceive ==
    /\ pc = "wait"
    /\ gen = "distill"
    /\ LET req == inflight[1]
       IN  \E bs \in [1..1 -> Bodies(gen)] :
             LET distilled == Respond(req.messages, bs)[1]
             IN  /\ results' = Append(results, DistillRecord(documents[doc_i], distilled))
                 /\ calls' = Append(calls, Call(req.method, req.messages, "ok", << distilled >>))
    /\ advanced' = advanced + 1
    /\ doc_i' = doc_i + 1
    /\ inflight' = <<>>
    /\ pc' = "loop"
    /\ UNCHANGED << args, env, helper_verbose, all_messages, batch_start, all_responses,
                    qa_pairs, all_qa_pairs, error, result >>

\* client.generate raises: nothing catches it
DistillRaise ==
    /\ pc = "wait"
    /\ gen = "distill"
    /\ calls' = Append(calls, Call(inflight[1].method, inflight[1].messages, "raise", <<>>))
    /\ inflight' = <<>>
    /\ error' = "backend"
    /\ pc' = "raised"
    /\ UNCHANGED << args, env, helper_verbose, doc_i, all_messages, batch_start,
                    all_responses, qa_pairs, all_qa_pairs, results, advanced, result >>

\* return results
DistillFinish ==
    /\ pc = "loop"
    /\ gen = "distill"
    /\ doc_i > Len(documents)
    /\ result' = << results >>
    /\ pc' = "done"
    /\ UNCHANGED << args, env, helper_verbose, doc_i, all_messages, batch_start,
                    inflight, all_responses, qa_pairs, all_qa_pairs, results,
                    advanced, calls, error >>

\* --------------------- KnowledgeListGenerator (knowledge_list_generator.py)
\* the result entry of lines 96-102
KnowledgeRecord(doc, knowledge) ==
    [ id |-> doc.id,
      text |-> knowledge,
      original_length |-> Len(doc.text),
      knowledge_length |-> Len(knowledge.body),
      compression_ratio |-> Ratio(Len(knowledge.body), Len(doc.text)) ]

\* len(knowledge) / len(doc_text) with no guard
KnowledgeRaises(doc) == Len(doc.text) = 0

\* process_documents lines 67-84, up to the head of the document loop
KnowledgeProcessDocuments ==
    /\ \/ /\ Direct
          /\ \E docs \in DocLists, v \in BOOLEAN, b \in BatchSizes :
              /\ documents' = docs
              /\ verbose' = v
              /\ batch_size' = b
          /\ ncalls' = ncalls + 1
          /\ entry' = "direct"
       \/ /\ FromCreate("knowledge-list")
          /\ verbose' = cf.verbose
          /\ batch_size' = cf.batch_size
          /\ UNCHANGED << documents, ncalls, entry >>
    /\ env' = SetVerbose(verbose')
    /\ gen' = "knowledge-list"
    /\ pc' = "loop"
    /\ doc_i' = 1
    /\ results' = <<>>
    /\ UNCHANGED << chunk_size, overlap, helper_verbose, all_messages, batch_start,
                    inflight, all_responses, qa_pairs, all_qa_pairs, advanced, calls,
                    error, result, num_pairs, outer >>

\* one iteration of the document loop up to extract_knowledge's call of
\* client.chat_completion
KnowledgeDispatch ==
    /\ pc = "loop"
    /\ gen = "knowledge-list"
    /\ doc_i <= Len(documents)
    /\ helper_verbose' = ReadVerbose(env)
    /\ inflight' = << [method |-> "chat_completion",
                       messages |-> << Message(doc_i, 1, documents[doc_i].text) >>] >>
    /\ pc' = "wait"
    /\ UNCHANGED << args, env, doc_i, all_messages, batch_start, all_responses,
                    qa_pairs, all_qa_pairs, results, advanced, calls, error, result >>

\* chat_completion returns: build the result entry (the division raises on
\* an empty text), append it, advance the progress task
KnowledgeReceive ==
    /\ pc = "wait"
    /\ gen = "knowledge-list"
    /\ LET req == inflight[1]
       IN  \E bs \in [1..1 -> Bodies(gen)] :
             LET knowledge == Respond(req.messages, bs)[1]
             IN  /\ calls' = Append(calls, Call(req.method, req.messages, "ok", << knowledge >>))
                 /\ IF ~HasId(documents[doc_i]) \/ KnowledgeRaises(documents[doc_i])
                    THEN /\ error' = IF ~HasId(documents[doc_i])
                                     THEN "KeyError" ELSE "ZeroDivisionError"
                         /\ pc' = "raised"
                         /\ UNCHANGED << results, advanced, doc_i >>
                    ELSE /\ results' = Append(results, KnowledgeRecord(documents[doc_i], knowledge))
                         /\ advanced' = advanced + 1
                         /\ doc_i' = doc_i + 1
                         /\ pc' = "loop"
                         /\ error' = error
    /\ inflight' = <<>>
    /\ UNCHANGED << args, env, helper_verbose, all_messages, batch_start, all_responses,
                    qa_pairs, all_qa_pairs, result >>

\* chat_completion raises: nothing catches it
KnowledgeRaise ==
    /\ pc = "wait"
    /\ gen = "knowledge-list"
    /\ calls' = Append(calls, Call(inflight[1].method, inflight[1].messages, "raise", <<>>))
    /\ inflight' = <<>>
    /\ error' = "backend"
    /\ pc' = "raised"
    /\ UNCHANGED << args, env, helper_verbose, doc_i, all_messages, batch_start,
                    all_responses, qa_pairs, all_qa_pairs, results, advanced, result >>

\* return results
KnowledgeFinish ==
    /\ pc = "loop"
    /\ gen = "knowledge-list"
    /\ doc_i > Len(documents)
    /\ result' = << results >>
    /\ pc' = "done"
    /\ UNCHANGED << args, env, helper_verbose, doc_i, all_messages, batch_start,
                    inflight, all_responses, qa_pairs, all_qa_pairs, results,
                    advanced, calls, error >>

\* --------------------------------------- create.process_file (create.py)
\* content types a caller may name; "summary" is one process_file rejects
ContentTypes == Generators \cup {"summary"}

\* extensions of the input path: a dataset, a text file, something else
CreateExts == { ".lance", ".txt", ".csv" }

\* contents of a plain UTF-8 file
FileTexts == { <<>>, <<"a", "b", "c">> }

\* rows of a .lance dataset
LanceTables == UNION { [1..n -> DocPool] : n \in 0..MaxRows }

CreateInputs ==
    { [ext |-> ".lance", rows |-> r] : r \in LanceTables }
    \cup { [ext |-> e, text |-> t] : e \in CreateExts \ {".lance"}, t \in FileTexts }

\* arguments of process_file and the chunking the config file holds; the
\* QA-only arguments keep their defaults for the other content types, and
\* at most one of chunk_size and chunk_overlap is given
CreateArgs ==
    { a \in [ content_type : ContentTypes, num_pairs : {None, <<1>>},
              chunk_size : {None, <<3>>}, chunk_overlap : {None, <<2>>},
              verbose : BOOLEAN, batch_size : BatchSizes,
              config_chunk : {<<2, 1>>} \cup BadChunkConfigs ] :
        /\ (a.chunk_size = None) \/ (a.chunk_overlap = None)
        /\ a.content_type # "qa" =>
              /\ a.num_pairs = None
              /\ a.chunk_size = None
              /\ a.config_chunk = <<2, 1>> }

\* process_file lines 69-73: the chunking arguments go into client.config
Override(config, a) ==
    [ chunk_size |-> IF a.chunk_size # None THEN a.chunk_size[1] ELSE config.chunk_size,
      overlap |-> IF a.chunk_overlap # None THEN a.chunk_overlap[1] ELSE config.overlap ]

\* process_file lines 82-86: the rows of a dataset, or the whole file as
\* one document with the keys text and image
LoadDocuments(inp) ==
    IF inp.ext = ".lance" THEN inp.rows
    ELSE << [text |-> inp.text, image |-> None] >>

\* an output file of the same name, left in the directory by an earlier run
EarlierFile == [obj |-> <<>>, indent |-> 0, ensure_ascii |-> TRUE]

\* a start that opens the output file for writing straight away
MakeDirsAndOpen(existed) ==
    [NoEffects EXCEPT !.out_dir_existed = existed, !.out_dir = TRUE,
                      !.output = << [obj |-> <<>>, indent |-> 2, ensure_ascii |-> FALSE] >>]

\* process_file line 59: os.makedirs(output_dir, exist_ok=True); a
\* directory that existed holds an earlier output file
MakeDirs(existed) ==
    [NoEffects EXCEPT !.out_dir_existed = existed, !.out_dir = TRUE,
                      !.output = IF existed THEN << EarlierFile >> ELSE <<>>]

\* json.dump(obj, f, indent, ensure_ascii): what is written and how;
\* ensure_ascii writes every non-ASCII character as a \uXXXX escape
json_dump(obj, indent, ensure_ascii) ==
    [obj |-> obj, indent |-> indent, ensure_ascii |-> ensure_ascii]

\* process_file lines 57-86: make the output directory, create the client,
\* apply the overrides, load the documents
CreateProcessFile ==
    /\ Direct
    /\ \E a \in CreateArgs, inp \in CreateInputs, existed \in BOOLEAN :
        /\ cf' = a
        /\ input' = inp
        /\ fs' = [MakeDirs(existed) EXCEPT !.read = TRUE]
        /\ client' = << [config |-> Override(load_config(a), a)] >>
        /\ documents' = LoadDocuments(inp)
    /\ entry' = "create"
    /\ ncalls' = ncalls + 1
    /\ pc' = "create"
    /\ UNCHANGED << gen, verbose, batch_size, chunk_size, overlap, env,
                    helper_verbose, doc_i, all_messages, batch_start, inflight,
                    all_responses, qa_pairs, all_qa_pairs, results, advanced,
                    calls, error, result, num_pairs, content, message >>

\* process_file lines 177-178: no branch for the content type
CreateUnknownType ==
    /\ pc = "create"
    /\ Branch(cf.content_type) = "none"
    /\ error' = "ValueError"
    /\ pc' = "raised"
    /\ UNCHANGED << args, env, helper_verbose, doc_i, all_messages, batch_start,
                    inflight, all_responses, qa_pairs, all_qa_pairs, results,
                    advanced, calls, result >>

\* process_file lines 97-104, 115-122, 133-140, 151-158, 169-176: the
\* result is written with indent 2; every branch but qa passes
\* ensure_ascii=False, the qa branch leaves the default (True)
CreateSave ==
    /\ pc = "done"
    /\ entry = "create"
    /\ fs' = [fs EXCEPT !.output =
                 << IF gen = "qa" THEN json_dump(result[1], 2, TRUE)
                                  ELSE json_dump(result[1], 2, FALSE) >>]
    /\ pc' = "returned"
    /\ UNCHANGED << ncalls, gen, documents, verbose, batch_size, chunk_size, overlap,
                    entry, cf, num_pairs, client, input, content, message, env,
                    helper_verbose, doc_i, all_messages, batch_start, inflight,
                    all_responses, qa_pairs, all_qa_pairs, results, advanced,
                    calls, error, result >>

\* ----------------------- ingest.process_file (ingest.py, parquet_parser.py)
IngestExts == { ".parquet", ".csv" }

\* column names of a table, in order
Columns == { <<"text">>, <<"id", "text">>, <<"id", "title">>, <<"title">> }

\* a text cell: null, the empty string, whitespace, or text
Cells == { None, << <<>> >>, << <<" ">> >>, << <<"a">> >>, << <<" ", "b">> >> }

RowIds == << "r1", "r2", "r3", "r4" >>

\* row i of a table with the columns cols and the given text cell
Row(cols, i, cell) ==
    [ c \in { cols[j] : j \in DOMAIN cols } |->
        IF c = "text" THEN cell ELSE IF c = "id" THEN << RowIds[i] >> ELSE << "t" >> ]

Tables ==
    UNION { { [columns |-> cols, rows |-> [i \in 1..n |-> Row(cols, i, f[i])]] :
                f \in [1..n -> Cells], cols \in Columns } : n \in 0..MaxTableRows }

IngestInputs == [ ext : IngestExts, exists : BOOLEAN, table : Tables ]

\* parse line 34: 'text' not in df.columns
MissingText(df) == ~ \E j \in DOMAIN df.columns : df.columns[j] = "text"

\* a message that names the first column only
OnlyFirstColumn(df) == << df.columns[1] >>

\* parse line 35: ", ".join(df.columns), every column name in order
available_columns(df) == df.columns

\* a test for the empty string only
IsEmpty(text) == text = <<>>

\* text_content.strip() is empty
Blank(text) == \A i \in DOMAIN text : text[i] = " "

\* parse lines 42-46: one {"text": ...} record per row whose text is
\* neither null nor blank, in row order
Records(df) ==
    LET kept == SelectSeq(df.rows, LAMBDA r : r.text # None /\ ~Blank(r.text[1]))
    IN  [i \in 1..Len(kept) |-> [text |-> kept[i].text[1]]]

\* ParquetParser.parse on a table with a text column (line 49)
parse(df) == IF Records(df) # <<>> THEN Records(df) ELSE << [text |-> <<>>] >>

\* ingest.process_file: make the output directory, pick the parser, parse,
\* write the dataset
IngestProcessFile ==
    /\ Direct
    /\ \E inp \in IngestInputs, existed \in BOOLEAN :
        LET made == [NoEffects EXCEPT !.out_dir_existed = existed, !.out_dir = TRUE]
        IN  /\ input' = inp
            /\ IF inp.ext # ".parquet"
               THEN /\ error' = "ValueError"
                    /\ pc' = "raised"
                    /\ fs' = made
                    /\ content' = <<>>
                    /\ message' = <<>>
               ELSE IF ~inp.exists
               THEN /\ error' = "FileNotFoundError"
                    /\ pc' = "raised"
                    /\ fs' = made
                    /\ content' = <<>>
                    /\ message' = <<>>
               ELSE IF MissingText(inp.table)
               THEN /\ error' = "ValueError"
                    /\ pc' = "raised"
                    /\ fs' = [made EXCEPT !.read = TRUE]
                    /\ content' = <<>>
                    /\ message' = << available_columns(inp.table) >>
               ELSE /\ error' = error
                    /\ pc' = "returned"
                    /\ content' = << parse(inp.table) >>
                    /\ fs' = [made EXCEPT !.read = TRUE,
                                          !.dataset = << parse(inp.table) >>]
                    /\ message' = <<>>
    /\ entry' = "ingest"
    /\ ncalls' = ncalls + 1
    /\ UNCHANGED << gen, documents, verbose, batch_size, chunk_size, overlap, env,
                    helper_verbose, doc_i, all_messages, batch_start, inflight,
                    all_responses, qa_pairs, all_qa_pairs, results, advanced,
                    calls, result, num_pairs, cf, client >>

\* ------------------------------------------------------------ the process
\* process_documents has returned or raised; the process goes on
Return ==
    /\ \/ pc \in {"raised", "returned"}
       \/ pc = "done" /\ entry # "create"
    /\ entry' = "none"
    /\ cf' = NoArgs
    /\ num_pairs' = DefaultNumPairs
    /\ client' = <<>>
    /\ fs' = NoEffects
    /\ input' = NoInput
    /\ content' = <<>>
    /\ message' = <<>>
    /\ pc' = "idle"
    /\ gen' = "none"
    /\ documents' = <<>>
    /\ verbose' = FALSE
    /\ batch_size' = 1
    /\ chunk_size' = 2
    /\ overlap' = 0
    /\ helper_verbose' = "none"
    /\ doc_i' = 0
    /\ all_messages' = <<>>
    /\ batch_start' = 0
    /\ all_responses' = <<>>
    /\ qa_pairs' = <<>>
    /\ all_qa_pairs' = <<>>
    /\ results' = <<>>
    /\ advanced' = 0
    /\ calls' = <<>>
    /\ error' = "none"
    /\ result' = <<>>
    /\ UNCHANGED << ncalls, env, inflight >>

Next ==
    \/ BaseProcessDocuments
    \/ BaseDispatch
    \/ BaseReceive
    \/ BaseReceiveShort
    \/ BaseRaise
    \/ BaseFinish
    \/ QAProcessDocuments
    \/ QABeginDoc
    \/ QADispatch
    \/ QAReceive
    \/ QAParseRaise
    \/ QARaise
    \/ QAEndDoc
    \/ QAFinish
    \/ DistillProcessDocuments
    \/ DistillDispatch
    \/ DistillReceive
    \/ DistillRaise
    \/ DistillFinish
    \/ KnowledgeProcessDocuments
    \/ KnowledgeDispatch
    \/ KnowledgeReceive
    \/ KnowledgeRaise
    \/ KnowledgeFinish
    \/ CreateProcessFile
    \/ CreateUnknownType
    \/ CreateSave
    \/ IngestProcessFile
    \/ Return

Spec == Init /\ [][Next]_vars

\* ------------------------------------------- the chunk splitter on its own
\* texts over two characters and chunkings with 0 <= overlap < chunk_size
SplitTexts == UNION { [1..n -> {"a", "b"}] : n \in 0..MaxText }

SplitConfigs == { c \in (1..MaxChunk) \X (0..MaxChunk) : c[2] < c[1] }

\* generate_qa_pairs is about to split the text of one document
InitSplit ==
    /\ \E t \in SplitTexts, c \in SplitConfigs, b \in BatchSizes :
        /\ documents = << [id |-> "doc1", text |-> t] >>
        /\ chunk_size = c[1]
        /\ overlap = c[2]
        /\ batch_size = b
    /\ pc = "doc"
    /\ ncalls = 1
    /\ gen = "qa"
    /\ verbose = FALSE
    /\ env = "false"
    /\ helper_verbose = "none"
    /\ doc_i = 1
    /\ all_messages = <<>>
    /\ batch_start = 0
    /\ inflight = <<>>
    /\ all_responses = <<>>
    /\ qa_pairs = <<>>
    /\ all_qa_pairs = <<>>
    /\ results = <<>>
    /\ advanced = 0
    /\ calls = <<>>
    /\ error = "none"
    /\ result = <<>>
    /\ entry = "direct"
    /\ cf = NoArgs
    /\ num_pairs = DefaultNumPairs
    /\ client = <<>>
    /\ fs = NoEffects
    /\ input = NoInput
    /\ content = <<>>
    /\ message = <<>>

\* generate_qa_pairs lines 95-122: split and build the prompts
NextSplit == QABeginDoc

SpecSplit == InitSplit /\ [][NextSplit]_vars

\* ================================================================ claims
Ceil(n, b) == (n + b - 1) \div b

\* every backend call made so far in this call returned its responses
BackendKeptContract == \A n \in 1..Len(calls) : calls[n].outcome = "ok"

\* the prompt at position k of the list p was answered by r in some call
AnsweredBy(p, k, r) ==
    \E n \in 1..Len(calls) : \E j \in 1..Len(calls[n].messages) :
        /\ calls[n].outcome = "ok"
        /\ calls[n].messages[j] = p[k]
        /\ calls[n].responses[j] = r

\* C1: BaseGenerator.process_documents with a backend that answers every
\* prompt in order: the k-th response handed to process_responses is the
\* backend's response to the prompt built from documents[k], and record k of
\* the result carries documents[k]'s id, for every document count and batch
\* size.
C1_OrderPreserved ==
    (pc = "done" /\ gen \in BaseGenerators /\ BackendKeptContract) =>
        /\ Len(all_responses) = Len(documents)
        /\ Len(result[1]) = Len(documents)
        /\ \A k \in 1..Len(documents) :
            /\ AnsweredBy(BasePrompts(documents), k, all_responses[k])
            /\ result[1][k].id = documents[k].id
            /\ result[1][k].text = all_responses[k]

\* C1 witness: three documents went out in two groups (2 + 1) and came back
C1_Witness ==
    /\ pc = "done"
    /\ gen \in BaseGenerators
    /\ Len(documents) = 3
    /\ batch_size = 2
    /\ Len(calls) = 2
    /\ documents[1].id # documents[3].id
    /\ result[1][3].id = documents[3].id

\* C2: in the batch loop of every generator (BaseGenerator.process_documents
\* and QAGenerator.generate_qa_pairs) a failure of the backend call for one
\* group is caught: it never ends process_documents with the exception.
C2_BatchFailureCaught ==
    (gen \in BaseGenerators \cup {"qa"}) => ~(pc = "raised" /\ error = "backend")

\* C3: for distill, knowledge-list and extract-knowledge a document of
\* length 0 never makes the run fail with a division by zero.
C3_NoDivisionByZero ==
    (gen \in {"distill", "knowledge-list", "extract-knowledge"}) =>
        ~(pc = "raised" /\ error = "ZeroDivisionError")

\* the calls of the log that carried prompts of document d (QA) / all calls
CallsOfDoc(d) == SelectSeq(calls, LAMBDA c : c.messages[1].d = d)

\* the call log cs is the partition of the prompt list p into consecutive
\* groups of b: ceil(N/b) calls, all of b prompts but the last
IsPartition(cs, p, b) ==
    /\ Len(cs) = Ceil(Len(p), b)
    /\ \A j \in 1..Len(cs) :
        cs[j].messages = Slice(p, (j - 1) * b, Min(j * b, Len(p)))

\* C4: for N prompts and batch size B >= 1 the dispatcher makes exactly
\* ceil(N/B) backend calls on consecutive slices of the prompt list, each of
\* B prompts except the last, every prompt in exactly one group; stated when
\* the dispatcher has ended (BaseGenerator.process_documents over, or the
\* batch loop of generate_qa_pairs exhausted).
C4_BatchPartition ==
    /\ (gen \in BaseGenerators /\ pc \in {"done", "raised"}) =>
            IsPartition(calls, all_messages, batch_size)
    /\ (gen = "qa" /\ pc = "loop" /\ batch_start >= Len(all_messages)) =>
            IsPartition(CallsOfDoc(doc_i), all_messages, batch_size)

RECURSIVE TotalChunks(_, _, _)
TotalChunks(docs, size, ov) ==
    IF docs = <<>> THEN 0
    ELSE Len(split_into_chunks(Head(docs).text, size, ov)) + TotalChunks(Tail(docs), size, ov)

\* C5: QAGenerator.process_documents batches the chunks of all documents
\* together: the number of batch calls is ceil(total chunks over all
\* documents / batch_size), so 2 documents of one chunk each and a batch
\* size of 2 or more make exactly one call (stated for documents with text).
C5_CallsBatchAcrossDocuments ==
    (/\ gen = "qa"
     /\ pc = "done"
     /\ \A k \in 1..Len(documents) : documents[k].text # <<>>) =>
        Len(calls) = Ceil(TotalChunks(documents, chunk_size, overlap), batch_size)

StartsWith(s, prefix) ==
    Len(s) >= Len(prefix) /\ SubSeq(s, 1, Len(prefix)) = prefix

\* C6: WikipediaRephraseGenerator.process_responses removes the known
\* preface from a response that starts with it: the record's text is the
\* rest of the response, for every document of the batch.
C6_PrefaceStripped ==
    (gen = "wikipedia-rephrase" /\ pc = "done") =>
        \A k \in 1..Len(result[1]) :
            StartsWith(all_responses[k].body, Preface) =>
                result[1][k].text.body =
                    SubSeq(all_responses[k].body, Len(Preface) + 1, Len(all_responses[k].body))

\* C7: all five generators reach the backend through client.batch_completion
\* only, and process_documents on a non-empty document list has called it at
\* least once when it returns.
C7_AllUseBatchCompletion ==
    /\ \A n \in 1..Len(calls) : calls[n].method = "batch_completion"
    /\ \A n \in 1..Len(inflight) : inflight[n].method = "batch_completion"
    /\ (pc = "done" /\ documents # <<>>) => calls # <<>>

\* C8: DistillGenerator.process_documents returns one record per document,
\* in order, record k with id = documents[k].id, text = the backend's
\* response for document k, original_length, distilled_length and a
\* compression_ratio field.
C8_DistillRecordShape ==
    (gen = "distill" /\ pc = "done") =>
        /\ Len(result[1]) = Len(documents)
        /\ \A k \in 1..Len(result[1]) :
            LET r == result[1][k]
            IN  /\ {"id", "text", "original_length", "distilled_length",
                     "compression_ratio"} \subseteq DOMAIN r
                /\ r.id = documents[k].id
                /\ r.text = calls[k].responses[1]
                /\ r.original_length = Len(documents[k].text)
                /\ r.distilled_length = Len(calls[k].responses[1].body)

\* C9: ExtractKnowledgeGenerator.process_responses on equally long lists
\* returns len(documents) records, record k with id = documents[k].id,
\* text = responses[k] unchanged, original_text = documents[k].text, the two
\* lengths, and compression_ratio = knowledge_length / original_length
\* (below 1 exactly when the response is shorter than the document).
C9_ExtractRecordsAligned ==
    (/\ gen = "extract-knowledge"
     /\ pc \in {"done", "raised"}
     /\ error # "backend"
     /\ Len(all_responses) = Len(documents)) =>
        /\ pc = "done"
        /\ Len(result[1]) = Len(documents)
        /\ \A k \in 1..Len(documents) :
            LET r == result[1][k]
            IN  /\ r.id = documents[k].id
                /\ r.text = all_responses[k]
                /\ r.original_text = documents[k].text
                /\ r.original_length = Len(documents[k].text)
                /\ r.knowledge_length = Len(all_responses[k].body)
                /\ r.compression_ratio = Ratio(r.knowledge_length, r.original_length)
                /\ (r.compression_ratio.num < r.compression_ratio.den)
                       <=> (Len(all_responses[k].body) < Len(documents[k].text))

\* position a pair was produced at: <<document, chunk, place in the response>>
Origin(pair) == << pair.question[1][1], pair.question[1][2], pair.question[2] >>

Precedes(a, b) ==
    \/ a[1] < b[1]
    \/ a[1] = b[1] /\ a[2] < b[2]
    \/ a[1] = b[1] /\ a[2] = b[2] /\ a[3] < b[3]

\* C10: every pair of the "qa_pairs" list returned by
\* QAGenerator.process_documents carries the id of the document whose chunk
\* produced it, and the pairs are grouped by document in input order, within
\* a document in chunk order.
C10_PairBackReference ==
    (gen = "qa" /\ pc = "done") =>
        LET ps == result[1].qa_pairs
        IN  /\ \A n \in 1..Len(ps) : ps[n].id = documents[Origin(ps[n])[1]].id
            /\ \A m, n \in 1..Len(ps) : m < n => Precedes(Origin(ps[m]), Origin(ps[n]))

\* C10 witness: pairs of two chunks of the second document follow pairs of
\* the first, each tagged with its own document's id
C10_Witness ==
    /\ gen = "qa"
    /\ pc = "done"
    /\ Len(documents) >= 2
    /\ documents[1].id # documents[2].id
    /\ LET ps == result[1].qa_pairs
       IN  /\ \E n \in 1..Len(ps) : Origin(ps[n])[1] = 1 /\ ps[n].id = documents[1].id
           /\ \E m, n \in 1..Len(ps) :
                /\ Origin(ps[m])[1] = 2 /\ Origin(ps[n])[1] = 2
                /\ Origin(ps[m])[2] = 1 /\ Origin(ps[n])[2] = 2
                /\ ps[n].id = documents[2].id

\* the document ids a reader of a QA result finds in it
AccountedIds(r) == { r.qa_pairs[n].id : n \in 1..Len(r.qa_pairs) }

\* C11: the result of QAGenerator.process_documents accounts for every
\* document it was given: a document (with text, answered by the backend)
\* whose responses held no parseable pair still appears in the result under
\* its id (with no pairs), so a reader can recover the list of pairs of each
\* document.
C11_PerDocumentAccounting ==
    (gen = "qa" /\ pc = "done" /\ BackendKeptContract) =>
        \A k \in 1..Len(documents) :
            (HasId(documents[k]) /\ documents[k].text # <<>>) =>
                documents[k].id \in AccountedIds(result[1])

\* C12: every record ParquetParser.parse returns to ingest.process_file has
\* the keys id and text; the id is the row's id when the table has an id
\* column and a synthesized one otherwise, never missing.
C12_IngestRecordsHaveId ==
    (entry = "ingest" /\ pc = "returned") =>
        \A i \in DOMAIN content[1] :
            /\ HasId(content[1][i])
            /\ "text" \in DOMAIN content[1][i]

\* C13: create.process_file on a plain, non-empty text file completes and
\* writes its output file for each of the five content types when the
\* backend answers every prompt (and the chunking of the config file is
\* valid).
C13_TextFileAccepted ==
    (/\ entry = "create"
     /\ input.ext = ".txt"
     /\ input.text # <<>>
     /\ cf.content_type \in Generators
     /\ cf.config_chunk \notin BadChunkConfigs
     /\ BackendKeptContract) =>
        /\ pc # "raised"
        /\ pc = "returned" => fs.output # <<>>

\* the input path has an extension the entry point does not support
UnsupportedInput ==
    \/ entry = "ingest" /\ input.ext # ".parquet"
    \/ entry = "create" /\ input.ext \notin {".lance", ".txt"}

\* C14: a run on an input with an unsupported extension has raised, and
\* nothing has happened before: no output directory was created, no file
\* was read, no LLM client was created, no prompt was sent.
C14_UnsupportedFailsFirst ==
    UnsupportedInput =>
        /\ pc = "raised"
        /\ fs.out_dir = fs.out_dir_existed
        /\ ~fs.read
        /\ client = <<>>
        /\ calls = <<>>
        /\ inflight = <<>>

\* C15: ingest.process_file on an existing parquet file without a text
\* column raises ValueError; the message lists every column of the table,
\* no records are returned and no dataset is written.
C15_MissingColumnListed ==
    (/\ entry = "ingest"
     /\ input.ext = ".parquet"
     /\ input.exists
     /\ MissingText(input.table)) =>
        /\ pc = "raised"
        /\ error = "ValueError"
        /\ message # <<>>
        /\ \A j \in DOMAIN input.table.columns :
              \E i \in DOMAIN message[1] : message[1][i] = input.table.columns[j]
        /\ content = <<>>
        /\ fs.dataset = <<>>

\* C15 witness: a table with the columns id and title was refused and both
\* names are in the message
C15_Witness ==
    /\ entry = "ingest"
    /\ pc = "raised"
    /\ error = "ValueError"
    /\ input.ext = ".parquet"
    /\ input.exists
    /\ input.table.columns = <<"id", "title">>
    /\ Len(input.table.rows) > 0
    /\ message = << <<"id", "title">> >>
    /\ fs.dataset = <<>>

\* C16: the output file of create.process_file is written with indent 2
\* and with non-ASCII characters unescaped, for every content type.
C16_OutputUnescaped ==
    (entry = "create" /\ pc = "returned") =>
        /\ fs.output # <<>>
        /\ fs.output[1].indent = 2
        /\ ~fs.output[1].ensure_ascii

\* C17: in the result of QAGenerator.process_documents no document id is
\* carried by more than num_pairs pairs, and a num_pairs given to
\* create.process_file is the num_pairs of the generator's run.
C17_NumPairsBounds ==
    /\ (gen = "qa" /\ pc = "done") =>
          \A id \in AccountedIds(result[1]) :
              Cardinality({ n \in 1..Len(result[1].qa_pairs) :
                              result[1].qa_pairs[n].id = id }) <= num_pairs
    /\ (gen = "qa" /\ entry = "create" /\ cf.num_pairs # None) =>
          num_pairs = cf.num_pairs[1]

\* C18: WikipediaRephraseGenerator, on a backend that returns one response
\* per prompt, returns one record per document; for a
\* response that does not start with the preface the record's text is the
\* backend's response to that document's prompt, unchanged, and its id is
\* the document's id.
C18_RephrasePassThrough ==
    (gen = "wikipedia-rephrase" /\ pc = "done" /\ BackendKeptContract) =>
        /\ Len(result[1]) = Len(documents)
        /\ \A k \in 1..Len(documents) :
              ~StartsWith(all_responses[k].body, Preface) =>
                  /\ AnsweredBy(BasePrompts(documents), k, result[1][k].text)
                  /\ result[1][k].text.body = all_responses[k].body
                  /\ result[1][k].id = documents[k].id

\* C18 witness: two documents, the first answered without the preface and
\* returned as answered, the second answered with it
C18_Witness ==
    /\ gen = "wikipedia-rephrase"
    /\ pc = "done"
    /\ Len(documents) = 2
    /\ Len(result[1]) = 2
    /\ documents[1].id # documents[2].id
    /\ ~StartsWith(all_responses[1].body, Preface)
    /\ StartsWith(all_responses[2].body, Preface)
    /\ result[1][1].text.body = <<"x">>
    /\ result[1][1].id = documents[1].id

\* the chunks generate_qa_pairs got from the splitter, read off its prompts
Chunks == [k \in 1..Len(all_messages) |-> all_messages[k].text]

\* where chunk k starts in the text (0-based)
ChunkStart(k) == (k - 1) * (chunk_size - overlap)

\* chunk 1 followed by what every later chunk adds after its overlap
RECURSIVE Reassemble(_, _)
Reassemble(chunks, k) ==
    IF k > Len(chunks) THEN <<>>
    ELSE (IF k = 1 THEN chunks[k]
          ELSE SubSeq(chunks[k], overlap + 1, Len(chunks[k])))
         \o Reassemble(chunks, k + 1)

\* C19: for 0 <= overlap < chunk_size, split_into_chunks(T) yields
\* contiguous substrings of T, each starting chunk_size - overlap after the
\* one before (so consecutive chunks share exactly overlap characters), all
\* of length chunk_size but possibly the last; the first chunk followed by
\* the non-overlapping rest of the others is T; a text shorter than
\* chunk_size is one chunk.
C19_ChunkCoverage ==
    (pc = "loop" /\ gen = "qa" /\ batch_start = 0 /\ calls = <<>>
     /\ overlap < chunk_size) =>
        LET T == documents[doc_i].text
            n == Len(Chunks)
        IN  /\ n >= 1
            /\ \A k \in 1..n :
                  /\ ChunkStart(k) + Len(Chunks[k]) <= Len(T)
                  /\ Chunks[k] = SubSeq(T, ChunkStart(k) + 1, ChunkStart(k) + Len(Chunks[k]))
                  /\ k < n => Len(Chunks[k]) = chunk_size
                  /\ k < n => SubSeq(Chunks[k], chunk_size - overlap + 1, chunk_size)
                                = SubSeq(Chunks[k + 1], 1, overlap)
                  /\ Len(Chunks[k]) <= chunk_size
            /\ Reassemble(Chunks, 1) = T
            /\ Len(T) < chunk_size => n = 1

\* C19 witness: a text of four characters cut with chunk_size 3, overlap 2
\* into two chunks that share two characters
C19_Witness ==
    /\ pc = "loop"
    /\ gen = "qa"
    /\ Len(documents[doc_i].text) = 4
    /\ chunk_size = 3
    /\ overlap = 2
    /\ Len(Chunks) = 2
    /\ Chunks[1] = SubSeq(documents[doc_i].text, 1, 3)
    /\ Chunks[2] = SubSeq(documents[doc_i].text, 2, 4)

\* the well-formed question/answer entries of a response, in source order:
\* a question marker directly followed by an answer marker
Entries(response) ==
    LET body == response.body
        at == SelectSeq([i \in 1..Len(body) |-> i],
                        LAMBDA i : i < Len(body) /\ body[i] = "Q" /\ body[i + 1] = "A")
    IN  [n \in 1..Len(at) |->
            [question |-> <<response.re, at[n]>>, answer |-> <<response.re, at[n] + 1>>]]

\* the entries of a list of responses, response after response
RECURSIVE EntriesOfResponses(_)
EntriesOfResponses(resps) ==
    IF resps = <<>> THEN <<>>
    ELSE Entries(Head(resps)) \o EntriesOfResponses(Tail(resps))

\* the entries of the responses of a list of calls, call after call
RECURSIVE EntriesOfCalls(_)
EntriesOfCalls(cs) ==
    IF cs = <<>> THEN <<>>
    ELSE EntriesOfResponses(Head(cs).responses) \o EntriesOfCalls(Tail(cs))

\* every item of every reply was a string
StringsOnly == \A n \in 1..Len(calls) : calls[n].outcome # "broken"

Pos(msg) == CHOOSE p \in 1..Len(all_messages) : all_messages[p] = msg

\* the calls the running batch loop has made
LoopCalls == IF gen = "qa" THEN CallsOfDoc(doc_i) ELSE calls

\* the responses returned by a list of calls, call after call
RECURSIVE Received(_)
Received(cs) == IF cs = <<>> THEN <<>> ELSE Head(cs).responses \o Received(Tail(cs))

\* C22: in the batch loops of BaseGenerator.process_documents and
\* QAGenerator.generate_qa_pairs at most one backend call is outstanding,
\* and only while the loop waits for it; a group holds consecutive prompts,
\* every prompt of a later call comes after every prompt of an earlier one,
\* and the outstanding call comes after all the calls that have returned,
\* whose responses have all been taken over.
C22_Sequential ==
    /\ Len(inflight) <= 1
    /\ inflight # <<>> => pc = "wait"
    /\ (gen \in BaseGenerators \cup {"qa"} /\ pc \in {"loop", "wait"}) =>
          /\ \A m, n \in 1..Len(LoopCalls) : m < n =>
                \A i \in 1..Len(LoopCalls[m].messages), j \in 1..Len(LoopCalls[n].messages) :
                    Pos(LoopCalls[m].messages[i]) < Pos(LoopCalls[n].messages[j])
          /\ \A m \in 1..Len(LoopCalls) : \A i \in 1..(Len(LoopCalls[m].messages) - 1) :
                Pos(LoopCalls[m].messages[i + 1]) = Pos(LoopCalls[m].messages[i]) + 1
          /\ inflight # <<>> =>
                /\ \A m \in 1..Len(LoopCalls) : \A i \in 1..Len(LoopCalls[m].messages) :
                      Pos(LoopCalls[m].messages[i]) < Pos(inflight[1].messages[1])
                /\ Pos(inflight[1].messages[1]) = batch_start + 1
                /\ gen \in BaseGenerators => all_responses = Received(calls)

\* C22 witness: the first group of two prompts has returned and the second
\* group is outstanding
C22_Witness ==
    /\ gen \in BaseGenerators
    /\ pc = "wait"
    /\ batch_size = 2
    /\ Len(calls) = 1
    /\ Len(calls[1].messages) = 2
    /\ Len(all_responses) = 2
    /\ Len(inflight) = 1
    /\ Pos(inflight[1].messages[1]) = 3

\* C24: the progress task of a batch loop is advanced by the size of each
\* group once the group is over, so that at every loop head the cumulative
\* advance is the number of prompts handled so far and, at the end, the
\* number of prompts: always in BaseGenerator.process_documents, in verbose
\* mode in QAGenerator.generate_qa_pairs.
C24_ProgressAfterEachGroup ==
    /\ (gen \in BaseGenerators /\ pc = "loop") =>
          advanced = Min(batch_start, Len(all_messages))
    /\ (gen = "qa" /\ pc = "loop" /\ helper_verbose) =>
          advanced = Min(batch_start, Len(all_messages))

\* C25: the SDK_VERBOSE value a helper (distill_text, extract_knowledge,
\* generate_qa_pairs) has read during a call of process_documents is the
\* verbose argument of that call, also when an earlier call in the process
\* has set the variable.
C25_VerboseNeverLeaks ==
    /\ (gen = "distill" /\ pc = "wait" /\ env # "unset") =>
          helper_verbose = verbose
    /\ (gen = "knowledge-list" /\ pc = "wait") =>
          helper_verbose = verbose
    /\ (gen = "qa" /\ pc \in {"loop", "wait"}) =>
          helper_verbose = verbose

\* C26: process_documents of ExtractKnowledgeGenerator and
\* WikipediaRephraseGenerator, once every group got its reply, returns
\* min(number of documents, number of responses received) records; record k
\* has the id of documents[k] and the k-th response received as its text;
\* so one record per document when every reply is as long as its group.
C26_RecordsFollowResponses ==
    (/\ gen \in BaseGenerators
     /\ pc \in {"done", "raised"}
     /\ error # "backend"
     /\ \A k \in 1..Len(documents) : HasId(documents[k])) =>
        /\ pc = "done"
        /\ Len(result[1]) = Min(Len(documents), Len(Received(calls)))
        /\ \A k \in 1..Len(result[1]) :
              /\ result[1][k].id = documents[k].id
              /\ result[1][k].text = Received(calls)[k]
        /\ (\A n \in 1..Len(calls) : Len(calls[n].responses) = Len(calls[n].messages)) =>
              Len(result[1]) = Len(documents)

\* the output file as create.process_file found it
OutputBefore == IF fs.out_dir_existed THEN << EarlierFile >> ELSE <<>>

\* C27: create.process_file writes its output file only once the
\* generator's process_documents has returned; until then, and for good
\* when generation raises, the file is as it was before the run: absent,
\* or the earlier file unchanged.
C27_NoPartialOutput ==
    (entry = "create" /\ pc # "returned") => fs.output = OutputBefore

\* C27 witness: the backend failed on the group of a loaded document and
\* the earlier output file is still there
C27_Witness ==
    /\ entry = "create"
    /\ pc = "raised"
    /\ error = "backend"
    /\ documents # <<>>
    /\ calls # <<>>
    /\ fs.out_dir_existed
    /\ fs.output = << EarlierFile >>

\* the rows of the parsed table that hold a text with a character other
\* than whitespace
Qualifying ==
    { i \in DOMAIN input.table.rows :
        /\ input.table.rows[i].text # None
        /\ \E j \in DOMAIN input.table.rows[i].text[1] :
              input.table.rows[i].text[1][j] # " " }

\* C28: ParquetParser.parse returns one record per qualifying row, in row
\* order and with the row's text; the list is never empty: when no row
\* qualifies it is a single record whose text is the empty string.
C28_RowFiltering ==
    (entry = "ingest" /\ pc = "returned") =>
        /\ content[1] # <<>>
        /\ IF Qualifying = {}
           THEN content[1] = << [text |-> <<>>] >>
           ELSE /\ Len(content[1]) = Cardinality(Qualifying)
                /\ \E f \in [1..Len(content[1]) -> Qualifying] :
                     /\ \A k \in 1..(Len(content[1]) - 1) : f[k] < f[k + 1]
                     /\ \A k \in 1..Len(content[1]) :
                           content[1][k] = [text |-> input.table.rows[f[k]].text[1]]

\* C28 witness: the second of two rows is kept, the first, of whitespace,
\* is dropped
C28_Witness ==
    /\ entry = "ingest"
    /\ pc = "returned"
    /\ Len(input.table.rows) = 2
    /\ input.table.rows[1].text = << <<" ">> >>
    /\ Qualifying = {2}
    /\ Len(content[1]) = 1

\* C29: in a QA run started by create.process_file the generator splits
\* with the chunk_size and chunk_overlap given to process_file and, for one
\* not given, with the configured value.
C29_OverridesTakeEffect ==
    (entry = "create" /\ gen = "qa" /\ pc \in {"doc", "loop", "wait"}) =>
        /\ chunk_size = IF cf.chunk_size # None THEN cf.chunk_size[1]
                        ELSE load_config(cf).chunk_size
        /\ overlap = IF cf.chunk_overlap # None THEN cf.chunk_overlap[1]
                     ELSE load_config(cf).overlap

\* C30: create.process_file with a content type it has no branch for ends
\* with ValueError, having sent no prompt to the backend and written no
\* output file.
C30_UnknownTypeRejected ==
    (entry = "create" /\ cf.content_type \notin Generators) =>
        /\ pc \in {"create", "raised"}
        /\ pc = "raised" => error = "ValueError"
        /\ calls = <<>>
        /\ inflight = <<>>
        /\ fs.output = OutputBefore

\* C30 witness: a dataset with a document was loaded and the run was refused
C30_Witness ==
    /\ entry = "create"
    /\ cf.content_type = "summary"
    /\ pc = "raised"
    /\ error = "ValueError"
    /\ documents # <<>>
    /\ calls = <<>>
    /\ fs.output = OutputBefore

\* the call of the log that carried the prompt a pair's response answers
CarriedBy(c, pair) ==
    \E j \in 1..Len(c.messages) :
        <<c.messages[j].d, c.messages[j].k>> = pair.question[1]

\* C23: a batch of generate_qa_pairs whose processing raised, in the backend
\* call or while parsing one of its responses, contributes nothing: no pair
\* of the document's list comes from a response of that batch, and every
\* entry of every other batch is in the list.
C23_FailedBatchEmpty ==
    (gen = "qa" /\ pc \in {"loop", "wait"}) =>
        /\ \A n \in 1..Len(qa_pairs) : \A m \in 1..Len(calls) :
              CarriedBy(calls[m], qa_pairs[n]) => calls[m].outcome = "ok"
        /\ \A m \in 1..Len(calls) :
              (calls[m].outcome = "ok" /\ calls[m].messages[1].d = doc_i) =>
                  LET es == EntriesOfResponses(calls[m].responses)
                  IN  \A e \in 1..Len(es) : \E n \in 1..Len(qa_pairs) :
                          /\ qa_pairs[n].question = es[e].question
                          /\ qa_pairs[n].answer = es[e].answer

\* the run is a QA run whose chunking, from the config file or from the
\* arguments of create.process_file, has overlap >= chunk_size
BadlyConfigured ==
    /\ gen = "qa"
    /\ \/ overlap >= chunk_size
       \/ /\ entry = "create"
          /\ client[1].config.overlap >= client[1].config.chunk_size

\* C20: a QA run with overlap >= chunk_size sends no prompt to the backend
\* and does not complete: it ends with the configuration error.
C20_BadOverlapFailsFast ==
    BadlyConfigured =>
        /\ calls = <<>>
        /\ inflight = <<>>
        /\ pc \notin {"done", "returned"}

====
